---- MODULE Spec2Model ----
(***************************************************************************)
(* Model of the RECS entity-component store:                               *)
(*   src/src/engine/sparse_set.h   SparseSet<T, Entity>                    *)
(*   src/src/engine/ecs.h          Entity, BitMaskHelper, ECS              *)
(*                                                                         *)
(* Six specifications share the module:                                    *)
(*   SpecSparse  one SparseSet driven by insert / erase / get / for_each   *)
(*   Spec        one ECS registry driven through its public interface      *)
(*   SpecLife    the registry's entity life cycle over many create /       *)
(*               destroy rounds, stale handles included                    *)
(*   SpecChurn   the registry under repeated add / get / remove cycles     *)
(*   SpecMasks   the registry with enough component types for the entity   *)
(*               masks to grow to a second word                            *)
(*   SpecQuery   the registry with every is_alive / has / matches_group    *)
(*               call recorded with the registry it leaves                 *)
(***************************************************************************)
EXTENDS Integers, Sequences, FiniteSets, TLC

VARIABLES
  set,    \* SpecSparse: the SparseSet object (pages, dense_entities, components)
  last,   \* SpecSparse: history, per key {v} for the value of the last insert, {} after an erase
  sop,    \* SpecSparse: history, the last call made on the set
  ecs,    \* Spec: the ECS object (all private fields of class ECS)
  op,     \* Spec: history, the last call made on the registry and what it returned
  held,   \* Spec: history, the handles returned by create_entity and not destroyed since
  freed,  \* Spec: history, per slot {h} for the handle whose destroy_entity last freed it
  issued, \* SpecLife: history, every handle create_entity has returned so far
  written, \* Spec: history, per type and slot {v} for the value of the last add since
           \* the last remove or destroy_entity of the slot's entity, {} when none
  churn,   \* SpecChurn: history, how far the caller is in a run of add, get, remove
           \* cycles on one entity and type, and what held before the first cycle
  kept     \* SpecMasks: the Group the caller has kept from a create_group call,
           \* with the type list it was built from; {} when none

vars == <<set, last, sop, ecs, op, held, freed, issued, written, churn, kept>>

-----------------------------------------------------------------------------
(* Bounds of the model *)

\* keys of the stand-alone SparseSet are 0..MaxKey-1 plus one key two pages up
MaxKey == 3
\* component values are 1..MaxValue
MaxValue == 2
\* at most MaxEntities slots are ever allocated by create_entity
MaxEntities == 2
\* the free list holds at most MaxFree indices
MaxFree == 2
\* width in bits of the generation counter (uint32_t in the source)
VersionBits == 1
\* width in bits of a mask word (uint64_t in the source)
BlockBits == 2

-----------------------------------------------------------------------------
(* Program constants *)

SPARSE_SET_PAGE_BITS == 11
SPARSE_SET_PAGE_SIZE == 2 ^ SPARSE_SET_PAGE_BITS
\* static_cast<Entity>(-1): the all-ones value, which no dense index of the model
\* equals; indices and keys of the model stay far below 2^32, where the casts to
\* Entity and uint32_t are the identity
INVALID == -1
\* static constexpr size_t BLOCK_BITS = 64, at the width of the model
BLOCK_BITS == BlockBits

\* a null page pointer: a page without entries
nullptr == [o \in {} |-> 0]

Values == 1..MaxValue
\* a key in page 2, so that page 1 stays unallocated
FarKey == 2 * SPARSE_SET_PAGE_SIZE + 1
Keys == (0..(MaxKey - 1)) \cup {FarKey}
AllKeys == Keys \cup (0..(MaxEntities - 1))
\* the offsets inside a page that the keys of the model address; a page is
\* modelled on these offsets only (the other entries are never read or written)
Offsets == {k % SPARSE_SET_PAGE_SIZE : k \in AllKeys}

-----------------------------------------------------------------------------
(* SparseSet *)

\* a default-constructed SparseSet
EmptySet == [pages |-> << >>, dense_entities |-> << >>, components |-> << >>]

page_of(e) == e \div SPARSE_SET_PAGE_SIZE
offset_of(e) == e % SPARSE_SET_PAGE_SIZE

\* pages.resize(page_idx + 1, nullptr) when too short, then allocate the page
\* filled with INVALID when it is null
ensure_page(s, page_idx) ==
  LET grown == IF page_idx >= Len(s.pages)
               THEN s.pages \o [i \in 1..(page_idx + 1 - Len(s.pages)) |-> nullptr]
               ELSE s.pages
      alloc == IF DOMAIN grown[page_idx + 1] = {}
               THEN [grown EXCEPT ![page_idx + 1] = [o \in Offsets |-> INVALID]]
               ELSE grown
  IN [s EXCEPT !.pages = alloc]

\* sparse_ref(e) used as an rvalue: the set after the page was ensured, and the entry
sparse_ref(s, e) ==
  LET t == ensure_page(s, page_of(e))
  IN [s |-> t, val |-> t.pages[page_of(e) + 1][offset_of(e)]]

\* sparse_ref(e) = v
sparse_assign(s, e, v) ==
  LET t == ensure_page(s, page_of(e))
  IN [t EXCEPT !.pages[page_of(e) + 1][offset_of(e)] = v]

\* pointer to sparse[e]: << >> for nullptr (the page was never allocated), else
\* <<v>> with v the entry pointed to
sparse_ptr(s, e) ==
  IF page_of(e) >= Len(s.pages) \/ DOMAIN s.pages[page_of(e) + 1] = {}
  THEN << >>
  ELSE <<s.pages[page_of(e) + 1][offset_of(e)]>>

contains(s, e) ==
  LET p == sparse_ptr(s, e)
  IN IF p = << >> THEN FALSE
     ELSE LET idx == p[1]
          IN idx # INVALID /\ s.dense_entities[idx + 1] = e

size(s) == Len(s.dense_entities)

entities(s) == s.dense_entities

insert_no_overwrite(s, e, value) ==
  IF contains(s, e) THEN s
  ELSE LET t == sparse_assign(s, e, Len(s.dense_entities))
       IN [t EXCEPT !.dense_entities = Append(t.dense_entities, e),
                    !.components = Append(t.components, value)]

insert_always_append(s, e, value) ==
  LET t == sparse_assign(s, e, Len(s.dense_entities))
  IN [t EXCEPT !.dense_entities = Append(t.dense_entities, e),
               !.components = Append(t.components, value)]

insert(s, e, value) ==
  IF contains(s, e)
  THEN LET r == sparse_ref(s, e)
       IN [r.s EXCEPT !.components[r.val + 1] = value]
  ELSE LET t == sparse_assign(s, e, Len(s.dense_entities))
       IN [t EXCEPT !.dense_entities = Append(t.dense_entities, e),
                    !.components = Append(t.components, value)]

pop_back(q) == SubSeq(q, 1, Len(q) - 1)

erase_keep_value(s, e) ==
  IF ~contains(s, e) THEN s
  ELSE LET r == sparse_ref(s, e)
           idx == r.val
           last_idx == Len(r.s.dense_entities) - 1
           last_entity == r.s.dense_entities[last_idx + 1]
           moved == [r.s EXCEPT !.dense_entities[idx + 1] = last_entity]
           fixed == sparse_assign(moved, last_entity, idx)
           popped == [fixed EXCEPT !.dense_entities = pop_back(fixed.dense_entities),
                                   !.components = pop_back(fixed.components)]
       IN sparse_assign(popped, e, INVALID)

RECURSIVE reindex_from(_, _)
reindex_from(s, i) ==
  IF i > Len(s.dense_entities) THEN s
  ELSE reindex_from(sparse_assign(s, s.dense_entities[i], i - 1), i + 1)

without(q, i) == SubSeq(q, 1, i - 1) \o SubSeq(q, i + 1, Len(q))

erase_shift(s, e) ==
  IF ~contains(s, e) THEN s
  ELSE LET r == sparse_ref(s, e)
           idx == r.val
           cut == [r.s EXCEPT !.dense_entities = without(r.s.dense_entities, idx + 1),
                              !.components = without(r.s.components, idx + 1)]
       IN reindex_from(sparse_assign(cut, e, INVALID), idx + 1)

erase_no_invalidate(s, e) ==
  IF ~contains(s, e) THEN s
  ELSE LET r == sparse_ref(s, e)
           idx == r.val
           last_idx == Len(r.s.dense_entities) - 1
           last_entity == r.s.dense_entities[last_idx + 1]
           moved == [r.s EXCEPT !.dense_entities[idx + 1] = last_entity,
                                !.components[idx + 1] = r.s.components[last_idx + 1]]
           fixed == sparse_assign(moved, last_entity, idx)
       IN [fixed EXCEPT !.dense_entities = pop_back(fixed.dense_entities),
                        !.components = pop_back(fixed.components)]

erase_absent_drops_last(s, e) ==
  IF size(s) = 0 THEN s
  ELSE LET x == IF contains(s, e) THEN e ELSE s.dense_entities[Len(s.dense_entities)]
           r == sparse_ref(s, x)
           idx == r.val
           last_idx == Len(r.s.dense_entities) - 1
           last_entity == r.s.dense_entities[last_idx + 1]
           moved == [r.s EXCEPT !.dense_entities[idx + 1] = last_entity,
                                !.components[idx + 1] = r.s.components[last_idx + 1]]
           fixed == sparse_assign(moved, last_entity, idx)
           popped == [fixed EXCEPT !.dense_entities = pop_back(fixed.dense_entities),
                                   !.components = pop_back(fixed.components)]
       IN sparse_assign(popped, x, INVALID)

erase_no_pop(s, e) ==
  IF ~contains(s, e) THEN s
  ELSE LET r == sparse_ref(s, e)
           idx == r.val
           last_idx == Len(r.s.dense_entities) - 1
           last_entity == r.s.dense_entities[last_idx + 1]
           moved == [r.s EXCEPT !.dense_entities[idx + 1] = last_entity,
                                !.components[idx + 1] = r.s.components[last_idx + 1]]
           fixed == sparse_assign(moved, last_entity, idx)
       IN sparse_assign(fixed, e, INVALID)

erase(s, e) ==
  IF ~contains(s, e) THEN s
  ELSE LET r == sparse_ref(s, e)
           idx == r.val
           last_idx == Len(r.s.dense_entities) - 1
           last_entity == r.s.dense_entities[last_idx + 1]
           \* move last into removed slot
           moved == [r.s EXCEPT !.dense_entities[idx + 1] = last_entity,
                                !.components[idx + 1] = r.s.components[last_idx + 1]]
           \* update sparse entry for swapped element
           fixed == sparse_assign(moved, last_entity, idx)
           \* remove last
           popped == [fixed EXCEPT !.dense_entities = pop_back(fixed.dense_entities),
                                   !.components = pop_back(fixed.components)]
           \* invalidate removed sparse entry
       IN sparse_assign(popped, e, INVALID)

\* SparseSet::get: assert(contains(e)), then components[sparse_ref(e)]
set_get_last(s, e) == s.components[Len(s.components)]

set_get_ok(s, e) == contains(s, e)
set_get(s, e) == s.components[sparse_ref(s, e).val + 1]

\* the (key, value) pairs handed to the visitor of for_each, in call order
for_each_all_but_last(s) ==
  [i \in 1..(Len(s.dense_entities) - 1) |-> <<s.dense_entities[i], s.components[i]>>]

for_each(s) == [i \in 1..Len(s.dense_entities) |-> <<s.dense_entities[i], s.components[i]>>]

\* the values after a visitor has assigned f[value] through each reference
RECURSIVE assign_each(_, _)
assign_each(q, f) ==
  IF q = << >> THEN << >> ELSE <<f[Head(q)]>> \o assign_each(Tail(q), f)

\* for_each with the visitor [&](auto key, auto &value) { value = f[value]; }:
\* the set afterwards and the pairs the visitor was called with
for_each_assign(s, f) ==
  [s |-> [s EXCEPT !.components = assign_each(s.components, f)], calls |-> for_each(s)]

-----------------------------------------------------------------------------
(* Entity handles and bit masks *)

Types == {"A", "B"}
\* with a third type the ids reach the second mask word
AllTypes == Types \cup {"C"}

\* uint32_t version arithmetic, at the width of the model
VERSION_MOD == 2 ^ VersionBits

Entity(i, g) == [index |-> i, version |-> g]

\* the handles a caller can pass: every index up to one past the allocatable
\* range, every generation value
Handles == [index : 0..MaxEntities, version : 0..(VERSION_MOD - 1)]

\* a mask word is modelled by the set of its set bit positions, 0..BLOCK_BITS-1
ZeroWord == {}

blocks_for_bits(bits) == (bits + BLOCK_BITS - 1) \div BLOCK_BITS

\* BitMaskHelper over a sequence of words (mask[0] is words[1])
set_bit(words, bit) ==
  [words EXCEPT ![(bit \div BLOCK_BITS) + 1] =
     words[(bit \div BLOCK_BITS) + 1] \cup {bit % BLOCK_BITS}]

reset_bit(words, bit) ==
  [words EXCEPT ![(bit \div BLOCK_BITS) + 1] =
     words[(bit \div BLOCK_BITS) + 1] \ {bit % BLOCK_BITS}]

test_bit(words, bit) == (bit % BLOCK_BITS) \in words[(bit \div BLOCK_BITS) + 1]

test_mask_match_any(entity_mask, required_mask, blocks) ==
  \E i \in 1..blocks : (entity_mask[i] \cap required_mask[i]) # ZeroWord

test_mask_match_exact(entity_mask, required_mask, blocks) ==
  \A i \in 1..blocks : entity_mask[i] = required_mask[i]

\* (entity_mask & required_mask) == required_mask over the first `blocks` words
test_mask_match(entity_mask, required_mask, blocks) ==
  \A i \in 1..blocks : (entity_mask[i] \cap required_mask[i]) = required_mask[i]

zeros(n) == [i \in 1..n |-> ZeroWord]

-----------------------------------------------------------------------------
(* ECS: private helpers.  r is the registry object, a record of its fields. *)

EmptyMap == [x \in {} |-> 0]

\* ECS() : component_count(0), mask_blocks(0)
NewECS ==
  [ versions           |-> << >>,
    free_list          |-> << >>,
    type_to_id         |-> EmptyMap,
    component_count    |-> 0,
    component_storages |-> EmptyMap,
    entity_masks       |-> << >>,
    mask_blocks        |-> 0 ]

put(f, k, v) == [x \in (DOMAIN f) \cup {k} |-> IF x = k THEN v ELSE f[x]]

\* the words of one entity's mask: mask_ptr(ent)[0 .. mask_blocks-1]
mask_ptr(r, ent_index) ==
  [b \in 1..r.mask_blocks |-> r.entity_masks[ent_index * r.mask_blocks + b]]

expand_masks_no_copy(r) ==
  LET new_blocks == blocks_for_bits(r.component_count)
  IN IF new_blocks = r.mask_blocks THEN r
     ELSE [r EXCEPT !.entity_masks = zeros(Len(r.versions) * new_blocks),
                    !.mask_blocks = new_blocks]

expand_masks_for_new_component(r) ==
  LET new_blocks == blocks_for_bits(r.component_count)
      n == Len(r.versions)
      new_masks ==
        [k \in 1..(n * new_blocks) |->
           LET ent == (k - 1) \div new_blocks
               b   == (k - 1) % new_blocks
           IN IF r.mask_blocks > 0 /\ b < r.mask_blocks
              THEN r.entity_masks[ent * r.mask_blocks + b + 1]
              ELSE ZeroWord]
  IN IF new_blocks = r.mask_blocks THEN r
     ELSE [r EXCEPT !.entity_masks = new_masks, !.mask_blocks = new_blocks]

\* vector::resize(n, 0): truncate or pad with zero words
resize(q, n) == [k \in 1..n |-> IF k <= Len(q) THEN q[k] ELSE ZeroWord]

ensure_entity_mask_size(r, n_entities) ==
  IF r.mask_blocks = 0
  THEN [r EXCEPT !.entity_masks = resize(r.entity_masks, n_entities * r.mask_blocks)]
  ELSE IF Len(r.entity_masks) < n_entities * r.mask_blocks
       THEN [r EXCEPT !.entity_masks = resize(r.entity_masks, n_entities * r.mask_blocks)]
       ELSE r

component_id_by_storages(r, T) ==
  IF T \in DOMAIN r.type_to_id
  THEN [r |-> r, id |-> r.type_to_id[T]]
  ELSE LET id == Cardinality(DOMAIN r.component_storages)
           r1 == [r EXCEPT !.component_count = r.component_count + 1,
                           !.type_to_id = put(r.type_to_id, T, id)]
       IN [r |-> expand_masks_for_new_component(r1), id |-> id]

\* component_id<T>(): the registry afterwards and the id
component_id(r, T) ==
  IF T \in DOMAIN r.type_to_id
  THEN [r |-> r, id |-> r.type_to_id[T]]
  ELSE LET id == r.component_count
           r1 == [r EXCEPT !.component_count = r.component_count + 1,
                           !.type_to_id = put(r.type_to_id, T, id)]
       IN [r |-> expand_masks_for_new_component(r1), id |-> id]

\* get_storage<T>() != nullptr
has_storage(r, T) == T \in DOMAIN r.component_storages

\* *get_storage<T>(), when not null
get_storage(r, T) == r.component_storages[T]

get_or_create_storage(r, T) ==
  IF T \in DOMAIN r.component_storages THEN r
  ELSE LET c == component_id(r, T)
       IN [c.r EXCEPT !.component_storages =
             put(c.r.component_storages, T, [comp_id |-> c.id, set |-> EmptySet])]

set_entity_bit(r, ent_index, comp_id) ==
  IF comp_id >= r.component_count THEN r
  ELSE LET r1 == IF blocks_for_bits(r.component_count) # r.mask_blocks
                 THEN expand_masks_for_new_component(r) ELSE r
           r2 == ensure_entity_mask_size(r1, Len(r1.versions))
           base == ent_index * r2.mask_blocks
           w == base + (comp_id \div BLOCK_BITS) + 1
       IN [r2 EXCEPT !.entity_masks[w] = r2.entity_masks[w] \cup {comp_id % BLOCK_BITS}]

reset_entity_bit(r, ent_index, comp_id) ==
  IF r.mask_blocks = 0 THEN r
  ELSE LET base == ent_index * r.mask_blocks
           w == base + (comp_id \div BLOCK_BITS) + 1
       IN [r EXCEPT !.entity_masks[w] = r.entity_masks[w] \ {comp_id % BLOCK_BITS}]

\* set_bit_in_mask on a std::vector<uint64_t>: grows the vector when needed
set_bit_in_mask(mask_vec, bit) ==
  LET bidx == bit \div BLOCK_BITS
      grown == IF bidx >= Len(mask_vec) THEN resize(mask_vec, bidx + 1) ELSE mask_vec
  IN set_bit(grown, bit)

-----------------------------------------------------------------------------
(* ECS: public interface *)

is_alive_any_version(r, e) == e.index < Len(r.versions)

is_alive(r, e) ==
  e.index < Len(r.versions) /\ r.versions[e.index + 1] = e.version

create_entity_fifo(r) ==
  IF r.free_list # << >>
  THEN LET idx == r.free_list[1]
           r1 == [r EXCEPT !.free_list = Tail(r.free_list)]
           r2 == ensure_entity_mask_size(r1, idx + 1)
       IN [r |-> r2, ret |-> Entity(idx, r2.versions[idx + 1])]
  ELSE LET idx == Len(r.versions)
           r1 == [r EXCEPT !.versions = Append(r.versions, 1)]
           r2 == ensure_entity_mask_size(r1, Len(r1.versions))
       IN [r |-> r2, ret |-> Entity(idx, 1)]

\* create_entity(): the registry afterwards and the handle returned
create_entity(r) ==
  IF r.free_list # << >>
  THEN LET idx == r.free_list[Len(r.free_list)]
           r1 == [r EXCEPT !.free_list = pop_back(r.free_list)]
           r2 == ensure_entity_mask_size(r1, idx + 1)
       IN [r |-> r2, ret |-> Entity(idx, r2.versions[idx + 1])]
  ELSE LET idx == Len(r.versions)
           r1 == [r EXCEPT !.versions = Append(r.versions, 1)]
           r2 == ensure_entity_mask_size(r1, Len(r1.versions))
       IN [r |-> r2, ret |-> Entity(idx, 1)]

\* kv.second->erase_entity(idx) for every kv of component_storages
erase_entity_all(storages, idx) ==
  [T \in DOMAIN storages |->
     [comp_id |-> storages[T].comp_id, set |-> erase(storages[T].set, idx)]]

\* mask_ptr[i] = 0 for the mask_blocks words of entity ent_index
clear_mask(r, ent_index) ==
  [k \in 1..Len(r.entity_masks) |->
     IF (k - 1) \div r.mask_blocks = ent_index THEN ZeroWord ELSE r.entity_masks[k]]

destroy_any_version(r, e) ==
  IF e.index >= Len(r.versions) THEN r
  ELSE LET r1 == [r EXCEPT !.versions[e.index + 1] = (r.versions[e.index + 1] + 1) % VERSION_MOD]
           r2 == [r1 EXCEPT !.component_storages = erase_entity_all(r1.component_storages, e.index)]
           r3 == IF r2.mask_blocks > 0
                 THEN [r2 EXCEPT !.entity_masks = clear_mask(r2, e.index)]
                 ELSE r2
       IN [r3 EXCEPT !.free_list = Append(r3.free_list, e.index)]

destroy_keep_mask(r, e) ==
  IF ~is_alive(r, e) THEN r
  ELSE LET r1 == [r EXCEPT !.versions[e.index + 1] = (r.versions[e.index + 1] + 1) % VERSION_MOD]
           r2 == [r1 EXCEPT !.component_storages = erase_entity_all(r1.component_storages, e.index)]
       IN [r2 EXCEPT !.free_list = Append(r2.free_list, e.index)]

destroy_entity(r, e) ==
  IF ~is_alive(r, e) THEN r
  ELSE LET \* increment version to invalidate old handles
           r1 == [r EXCEPT !.versions[e.index + 1] = (r.versions[e.index + 1] + 1) % VERSION_MOD]
           \* remove entity from all component storages
           r2 == [r1 EXCEPT !.component_storages = erase_entity_all(r1.component_storages, e.index)]
           \* clear mask blocks for this entity
           r3 == IF r2.mask_blocks > 0
                 THEN [r2 EXCEPT !.entity_masks = clear_mask(r2, e.index)]
                 ELSE r2
       IN [r3 EXCEPT !.free_list = Append(r3.free_list, e.index)]

\* add<T>(e, value) past its assert(is_alive(e))
add(r, T, e, value) ==
  LET r1 == get_or_create_storage(r, T)
      cid == r1.component_storages[T].comp_id
      r2 == [r1 EXCEPT !.component_storages[T].set =
                insert(r1.component_storages[T].set, e.index, value)]
  IN set_entity_bit(r2, e.index, cid)

has_any_version(r, T, e) ==
  IF e.index >= Len(r.versions) THEN FALSE
  ELSE IF ~has_storage(r, T) THEN FALSE
  ELSE contains(get_storage(r, T).set, e.index)

has(r, T, e) ==
  IF ~is_alive(r, e) THEN FALSE
  ELSE IF ~has_storage(r, T) THEN FALSE
  ELSE contains(get_storage(r, T).set, e.index)

\* get<T>(e): assert(is_alive(e)); get_or_create_storage<T>(); set.get(e.index)
\* with its assert(contains(e.index)).  ok is FALSE when an assertion fails; r
\* is the registry at that point.
get(r, T, e) ==
  IF ~is_alive(r, e) THEN [ok |-> FALSE, r |-> r]
  ELSE LET r1 == get_or_create_storage(r, T)
           s == r1.component_storages[T].set
       IN IF ~set_get_ok(s, e.index)
          THEN [ok |-> FALSE, r |-> r1]
          ELSE [ok |-> TRUE, r |-> r1, ret |-> set_get(s, e.index)]

remove_any_version(r, T, e) ==
  IF e.index >= Len(r.versions) THEN r
  ELSE IF ~has_storage(r, T) THEN r
  ELSE LET st == get_storage(r, T)
           r1 == [r EXCEPT !.component_storages[T].set =
                 erase(r.component_storages[T].set, e.index)]
       IN reset_entity_bit(r1, e.index, st.comp_id)

remove_keep_bit(r, T, e) ==
  IF ~is_alive(r, e) THEN r
  ELSE IF ~has_storage(r, T) THEN r
  ELSE [r EXCEPT !.component_storages[T].set =
                 erase(r.component_storages[T].set, e.index)]

remove_all_types(r, T, e) ==
  IF ~is_alive(r, e) THEN r
  ELSE IF ~has_storage(r, T) THEN r
  ELSE LET r1 == [r EXCEPT !.component_storages = erase_entity_all(r.component_storages, e.index)]
       IN [r1 EXCEPT !.entity_masks = clear_mask(r1, e.index)]

remove_keep_slot(r, T, e) ==
  IF ~is_alive(r, e) THEN r
  ELSE IF ~has_storage(r, T) THEN r
  ELSE reset_entity_bit(r, e.index, get_storage(r, T).comp_id)

remove(r, T, e) ==
  IF ~is_alive(r, e) THEN r
  ELSE IF ~has_storage(r, T) THEN r
  ELSE LET st == get_storage(r, T)
           r1 == [r EXCEPT !.component_storages[T].set =
                 erase(r.component_storages[T].set, e.index)]
       IN reset_entity_bit(r1, e.index, st.comp_id)

\* (set_bit_in_mask(mask, component_id<Ts>()), ...) left to right
RECURSIVE set_bits_for(_, _, _)
set_bits_for(r, mask_vec, Ts) ==
  IF Ts = << >> THEN [r |-> r, mask |-> mask_vec]
  ELSE LET c == component_id(r, Head(Ts))
       IN set_bits_for(c.r, set_bit_in_mask(mask_vec, c.id), Tail(Ts))

\* create_group<Ts...>(): the registry afterwards and the Group's required_mask
create_group(r, Ts) ==
  LET g == zeros(r.mask_blocks)
      res == set_bits_for(r, g, Ts)
  IN [r |-> res.r, ret |-> res.mask]

min(a, b) == IF a < b THEN a ELSE b

matches_group_any_version(r, e, g) ==
  IF e.index >= Len(r.versions) THEN FALSE
  ELSE LET e_mask == mask_ptr(r, e.index)
       IN IF Len(g) # r.mask_blocks
          THEN LET min_blocks == min(Len(g), r.mask_blocks)
               IN /\ \A i \in 1..min_blocks : (e_mask[i] \cap g[i]) = g[i]
                  /\ \A i \in (min_blocks + 1)..Len(g) : g[i] = ZeroWord
          ELSE test_mask_match(e_mask, g, r.mask_blocks)

matches_group_same_size(r, e, g) ==
  IF ~is_alive(r, e) THEN FALSE
  ELSE IF Len(g) # r.mask_blocks THEN FALSE
  ELSE test_mask_match(mask_ptr(r, e.index), g, r.mask_blocks)

matches_group(r, e, g) ==
  IF ~is_alive(r, e) THEN FALSE
  ELSE LET e_mask == mask_ptr(r, e.index)
       IN IF Len(g) # r.mask_blocks
          THEN LET min_blocks == min(Len(g), r.mask_blocks)
               IN /\ \A i \in 1..min_blocks : (e_mask[i] \cap g[i]) = g[i]
                  /\ \A i \in (min_blocks + 1)..Len(g) : g[i] = ZeroWord
          ELSE test_mask_match(e_mask, g, r.mask_blocks)

RECURSIVE pick_best_last_on_tie(_, _, _)
pick_best_last_on_tie(r, best, Ts) ==
  IF Ts = << >> THEN best
  ELSE pick_best_last_on_tie(r,
         IF size(get_storage(r, Head(Ts)).set) <= size(get_storage(r, best).set)
         THEN Head(Ts) ELSE best,
         Tail(Ts))

\* the storage view iterates: the first one of the list with the fewest elements
RECURSIVE pick_best(_, _, _)
pick_best(r, best, Ts) ==
  IF Ts = << >> THEN best
  ELSE pick_best(r,
         IF size(get_storage(r, Head(Ts)).set) < size(get_storage(r, best).set)
         THEN Head(Ts) ELSE best,
         Tail(Ts))

\* call_with_components<Ts...>(ent_index, fn): every lookup's assert holds
call_ok(r, Ts, ent_index) ==
  \A i \in 1..Len(Ts) : set_get_ok(get_storage(r, Ts[i]).set, ent_index)

\* the arguments fn is called with
call_with_components(r, Ts, ent_index) ==
  [ e |-> Entity(ent_index, r.versions[ent_index + 1]),
    comps |-> [i \in 1..Len(Ts) |-> set_get(get_storage(r, Ts[i]).set, ent_index)] ]

\* the calls made while scanning dense positions from..Len(ents); ok is FALSE when
\* a lookup's assertion failed, and the scan stops there
RECURSIVE scan(_, _, _, _, _)
scan(r, Ts, req, ents, from) ==
  IF from > Len(ents) THEN [ok |-> TRUE, calls |-> << >>]
  ELSE IF ~test_mask_match(mask_ptr(r, ents[from]), req, r.mask_blocks)
       THEN scan(r, Ts, req, ents, from + 1)
  ELSE IF ~call_ok(r, Ts, ents[from])
       THEN [ok |-> FALSE, calls |-> << >>]
  ELSE LET rest == scan(r, Ts, req, ents, from + 1)
       IN [ok |-> rest.ok,
           calls |-> <<call_with_components(r, Ts, ents[from])>> \o rest.calls]

view_registers_first(r, Ts) ==
  LET req == set_bits_for(r, zeros(r.mask_blocks), Ts)
  IN IF \E i \in 1..Len(Ts) : ~has_storage(r, Ts[i])
     THEN [r |-> req.r, ok |-> TRUE, calls |-> << >>]
     ELSE LET best == pick_best(req.r, Ts[1], Ts)
              res == scan(req.r, Ts, req.mask, entities(get_storage(req.r, best).set), 1)
          IN [r |-> req.r, ok |-> res.ok, calls |-> res.calls]

view_skip_missing(r, Ts) ==
  IF ~has_storage(r, Ts[1])
  THEN [r |-> r, ok |-> TRUE, calls |-> << >>]
  ELSE LET Ps == SelectSeq(Ts, LAMBDA T : has_storage(r, T))
           best == pick_best(r, Ps[1], Ps)
           req == set_bits_for(r, zeros(r.mask_blocks), Ps)
           res == scan(req.r, Ps, req.mask, entities(get_storage(req.r, best).set), 1)
       IN [r |-> req.r, ok |-> res.ok, calls |-> res.calls]

\* view<Ts...>(fn) with a visitor that only reads: the registry afterwards, the
\* calls of fn in order, and whether every assertion on the way held
view(r, Ts) ==
  IF \E i \in 1..Len(Ts) : ~has_storage(r, Ts[i])
  THEN [r |-> r, ok |-> TRUE, calls |-> << >>]
  ELSE LET best == pick_best(r, Ts[1], Ts)
           req == set_bits_for(r, zeros(r.mask_blocks), Ts)
           res == scan(req.r, Ts, req.mask, entities(get_storage(req.r, best).set), 1)
       IN [r |-> req.r, ok |-> res.ok, calls |-> res.calls]

-----------------------------------------------------------------------------
(* SpecSparse: one SparseSet and its caller *)

sparse_vars == <<set, last, sop>>
ecs_vars == <<ecs, op, held, freed, issued, written, churn, kept>>

\* dense position of key k before a call, -1 when absent
pos_of(s, k) == IF contains(s, k) THEN sparse_ptr(s, k)[1] ELSE -1

InitSparse ==
  /\ set = EmptySet
  /\ last = [k \in Keys |-> {}]
  /\ sop = [name |-> "init"]

\* a failed assertion ends the program
Running == sop.name # "abort"

Insert(k, v) ==
  /\ Running
  /\ set' = insert(set, k, v)
  /\ last' = [last EXCEPT ![k] = {v}]
  /\ sop' = [name |-> "insert", key |-> k, value |-> v, pos |-> pos_of(set, k),
             old |-> IF contains(set, k) THEN {set_get(set, k)} ELSE {},
             after_erase |-> (sop.name = "erase" /\ sop.key = k /\ sop.pos >= 0)]
  /\ UNCHANGED ecs_vars

Erase(k) ==
  /\ Running
  /\ set' = erase(set, k)
  /\ last' = [last EXCEPT ![k] = {}]
  /\ sop' = [name |-> "erase", key |-> k, pos |-> pos_of(set, k), was_size |-> size(set)]
  /\ UNCHANGED ecs_vars

Get(k) ==
  /\ Running
  /\ sop' = IF set_get_ok(set, k)
            THEN [name |-> "get", key |-> k, ret |-> set_get(set, k)]
            ELSE [name |-> "abort", key |-> k]
  /\ UNCHANGED <<set, last>>
  /\ UNCHANGED ecs_vars

ForEach ==
  /\ Running
  /\ sop' = [name |-> "for_each", calls |-> for_each(set)]
  /\ UNCHANGED <<set, last>>
  /\ UNCHANGED ecs_vars

ForEachAssign(f) ==
  /\ Running
  /\ set' = for_each_assign(set, f).s
  /\ last' = [k \in Keys |-> {f[v] : v \in last[k]}]
  /\ sop' = [name |-> "for_each_assign", f |-> f, calls |-> for_each_assign(set, f).calls]
  /\ UNCHANGED ecs_vars

NextSparse ==
  \/ \E f \in [Values -> Values] : ForEachAssign(f)
  \/ \E k \in Keys, v \in Values : Insert(k, v)
  \/ \E k \in Keys : Erase(k)
  \/ \E k \in Keys : Get(k)
  \/ ForEach

\* no cycle under way
Idle == [phase |-> "idle"]

InitEcs ==
  /\ ecs = NewECS
  /\ op = [name |-> "init"]
  /\ held = {}
  /\ freed = [i \in 0..(MaxEntities - 1) |-> {}]
  /\ issued = {}
  /\ written = [T \in AllTypes |-> [i \in 0..(MaxEntities - 1) |-> {}]]
  /\ churn = Idle
  /\ kept = {}

\* both objects start as constructed
Init == InitSparse /\ InitEcs

SpecSparse == Init /\ [][NextSparse]_vars

-----------------------------------------------------------------------------
(* Properties of the SparseSet, checked under SpecSparse *)

\* C3: after any sequence of insert and erase calls, contains(k) is true exactly
\* when the last call on k was an insert, and get(k) is then the value of that
\* insert: the set is a key -> value map.
C3_ReferenceMap ==
  \A k \in Keys :
    /\ contains(set, k) <=> (last[k] # {})
    /\ contains(set, k) => (last[k] = {set_get(set, k)})

\* a key was erased and inserted again with a value, next to a key that is
\* present and a key that is absent
C3_Witness ==
  /\ sop.name = "insert" /\ sop.after_erase
  /\ set_get(set, sop.key) = sop.value
  /\ \E k \in Keys \ {sop.key} : contains(set, k)
  /\ \E k \in Keys : ~contains(set, k) /\ k < sop.key

\* C4: erase(k) of a present key decreases size() by one and makes contains(k)
\* false, and leaves contains(k2) and get(k2) of every other key k2 as they
\* were; an insert(k, v) that follows leaves get(k2) of every other present key
\* as it was.
C4_EraseFrame ==
  [][ /\ \A k \in Keys :
           (Erase(k) /\ contains(set, k)) =>
              /\ size(set') = size(set) - 1
              /\ ~contains(set', k)
              /\ \A k2 \in Keys \ {k} :
                    /\ contains(set', k2) = contains(set, k2)
                    /\ contains(set, k2) => (set_get(set', k2) = set_get(set, k2))
      /\ \A k \in Keys, v \in Values :
           (Insert(k, v) /\ sop.name = "erase" /\ sop.key = k /\ sop.pos >= 0) =>
              \A k2 \in Keys \ {k} :
                 contains(set, k2) =>
                    contains(set', k2) /\ set_get(set', k2) = set_get(set, k2)
    ]_vars

\* a present key that was not at the last dense position was erased, and two
\* other keys are still there
C4_Witness ==
  /\ sop.name = "erase" /\ sop.pos >= 0 /\ sop.pos < sop.was_size - 1
  /\ size(set) >= 2

\* C10: insert(k, v2) on a set that contains k overwrites in place: get(k) is v2
\* afterwards, size() and the dense order of the keys are unchanged.
C10_OverwriteInPlace ==
  [][ \A k \in Keys, v \in Values :
        (Insert(k, v) /\ contains(set, k)) =>
           /\ set_get(set', k) = v
           /\ size(set') = size(set)
           /\ entities(set') = entities(set)
    ]_vars

\* a key that was present with another value, and not at the last dense
\* position, was inserted again
C10_Witness ==
  /\ sop.name = "insert" /\ sop.pos >= 0 /\ sop.pos < size(set) - 1
  /\ sop.old # {sop.value}
  /\ set_get(set, sop.key) = sop.value

\* C20: once every key that was inserted has been erased, in whatever order the
\* keys were inserted and erased, size() is 0, contains(k) is false for every
\* key and for_each visits nothing.
C20_EraseAllLeavesEmpty ==
  (\A k \in Keys : last[k] = {}) =>
     /\ size(set) = 0
     /\ \A k \in Keys : ~contains(set, k)
     /\ for_each(set) = << >>
     /\ set.components = << >>

\* the last present key was just erased; keys of the first and of the third
\* page have been inserted before (their pages stay allocated)
C20_Witness ==
  /\ sop.name = "erase" /\ sop.pos = 0 /\ sop.was_size = 1
  /\ \A k \in Keys : last[k] = {}
  /\ Len(set.pages) = 3
  /\ DOMAIN set.pages[1] # {} /\ DOMAIN set.pages[3] # {}

\* the pairs for_each is to produce: every dense position in order, the key
\* there and the value get returns for that key
packed(s) == [i \in 1..size(s) |-> <<entities(s)[i], set_get(s, entities(s)[i])>>]

\* C22: for_each calls the visitor size() times, once per contained key with
\* that key's own value, in dense order; a second call without insert or erase
\* in between gives the same sequence; a visitor that only assigns to the value
\* reference changes no key, no membership and no order, and get returns the
\* assigned values afterwards.
C22_ForEachPacked ==
  [][ /\ Len(for_each(set')) = size(set')
      /\ for_each(set') = packed(set')
      /\ {for_each(set')[i][1] : i \in 1..size(set')} = {k \in Keys : contains(set', k)}
      /\ Cardinality({k \in Keys : contains(set', k)}) = size(set')
      /\ (sop'.name = "for_each") => (sop'.calls = packed(set) /\ for_each(set') = sop'.calls)
      /\ (sop'.name = "for_each_assign") =>
            /\ sop'.calls = packed(set)
            /\ entities(set') = entities(set)
            /\ set'.pages = set.pages
            /\ \A k \in Keys :
                  /\ contains(set', k) <=> contains(set, k)
                  /\ contains(set, k) => set_get(set', k) = sop'.f[set_get(set, k)]
    ]_vars

\* a visitor that swaps the two values has run over a set of three keys that
\* held both values, in an order earlier erases have shuffled
C22_Witness ==
  /\ sop.name = "for_each_assign"
  /\ sop.f[1] = 2 /\ sop.f[2] = 1
  /\ size(set) = 3
  /\ \E i, j \in 1..size(set) : sop.calls[i][2] # sop.calls[j][2]
  /\ \E i, j \in 1..size(set) : i < j /\ entities(set)[i] > entities(set)[j]

\* C25: erase(k) of a present key at dense position p moves the key and value
\* of the last dense position to p, sets that key's sparse entry to p, drops
\* the last position and sets k's sparse entry to INVALID; every other key
\* keeps its position; when k is the last element, the rest is as it was.
C25_EraseSwapsLastIn ==
  [][ (sop'.name = "erase" /\ sop'.pos >= 0) =>
        LET k == sop'.key
            p == sop'.pos
            n == size(set)
            moved_key == entities(set)[n]
            moved_value == set.components[n]
        IN /\ size(set') = n - 1 /\ Len(set'.components) = n - 1
           /\ sparse_ptr(set', k) = <<INVALID>>
           /\ (p < n - 1) =>
                 /\ entities(set')[p + 1] = moved_key
                 /\ set'.components[p + 1] = moved_value
                 /\ sparse_ptr(set', moved_key) = <<p>>
           /\ \A i \in 1..(n - 1) :
                 (i # p + 1) =>
                    /\ entities(set')[i] = entities(set)[i]
                    /\ set'.components[i] = set.components[i]
                    /\ sparse_ptr(set', entities(set)[i]) = <<i - 1>>
    ]_vars

\* the first of three keys was erased: the key that was last is now first, with
\* a value that differs from the value of the key kept in the middle
C25_Witness ==
  /\ sop.name = "erase" /\ sop.pos = 0 /\ sop.was_size = 3
  /\ set.components[1] # set.components[2]
  /\ page_of(entities(set)[1]) # page_of(sop.key)

\* C26: after erase(k) of a present key, for_each and entities() produce the
\* remaining keys in the same relative order as before the erase.
C26_ErasePreservesOrder ==
  [][ (sop'.name = "erase" /\ sop'.pos >= 0) =>
        entities(set') = SelectSeq(entities(set), LAMBDA x : x # sop'.key)
    ]_vars

\* a key of the second page, which no call of the model ever allocates
NullPageKey == SPARSE_SET_PAGE_SIZE
ProbeKeys == Keys \cup {NullPageKey}

\* what a caller can observe of a set: size(), entities(), the values in dense
\* order, and contains of every key
observable(s) ==
  [size |-> size(s), entities |-> entities(s), values |-> s.components,
   contains |-> {k \in ProbeKeys : contains(s, k)}]

\* C21: erase(k) on a set that does not contain k (never inserted, erased
\* before, or in a page that was never allocated) leaves size(), the dense key
\* order, every value and contains of every key as they were; and erase(k);
\* erase(k) leaves the set as erase(k) does.
C21_EraseAbsentIsNoOp ==
  [][ /\ (sop'.name = "erase" /\ sop'.pos < 0) => observable(set') = observable(set)
      /\ \A k \in ProbeKeys :
            /\ ~contains(set, k) => observable(erase(set, k)) = observable(set)
            /\ observable(erase(erase(set, k), k)) = observable(erase(set, k))
    ]_vars

\* erase was called on a non-empty set with a key whose page does not exist,
\* while another key is absent with its page allocated
C21_Witness ==
  /\ sop.name = "erase" /\ sop.pos < 0
  /\ page_of(sop.key) >= Len(set.pages)
  /\ size(set) >= 2
  /\ \E k \in Keys : ~contains(set, k) /\ sparse_ptr(set, k) = <<INVALID>>

\* the keys of the dense array
dense_keys(s) == {s.dense_entities[i] : i \in 1..Len(s.dense_entities)}

\* C35: in every reachable set the dense key array and the value array have
\* the same length, no key occurs twice in the dense array, the sparse entry of
\* the key at dense position i is i, and every key outside the dense array has
\* no allocated page or INVALID as its sparse entry.
C35_SparseDenseAgree ==
  /\ Len(set.dense_entities) = Len(set.components)
  /\ \A i, j \in 1..Len(set.dense_entities) :
        i # j => set.dense_entities[i] # set.dense_entities[j]
  /\ \A i \in 1..Len(set.dense_entities) :
        sparse_ptr(set, set.dense_entities[i]) = <<i - 1>>
  /\ \A k \in ProbeKeys \ dense_keys(set) :
        sparse_ptr(set, k) \in {<< >>, <<INVALID>>}
  /\ \A k \in ProbeKeys :
        sparse_ptr(set, k) \notin {<< >>, <<INVALID>>} => sparse_ptr(set, k)[1] < size(set)

\* after the erase of a key that was not last: two keys of different pages are
\* left, the erased key's entry is INVALID and the page between is a null page
C35_Witness ==
  /\ sop.name = "erase" /\ sop.pos >= 0 /\ sop.pos < sop.was_size - 1
  /\ size(set) = 2
  /\ page_of(set.dense_entities[1]) # page_of(set.dense_entities[2])
  /\ sparse_ptr(set, sop.key) = <<INVALID>>
  /\ sparse_ptr(set, NullPageKey) = << >> /\ Len(set.pages) = 3

-----------------------------------------------------------------------------
(* Spec: one ECS registry and its caller *)

\* type lists of view<...> and create_group<...>
MaxTypeList == 2
\* add / get / remove cycles followed on one entity and type
MaxCycles == 2
TypeLists ==
  {Ts \in UNION {[1..n -> Types] : n \in 1..MaxTypeList} :
      \A j, k \in 1..Len(Ts) : j # k => Ts[j] # Ts[k]}
GroupLists == TypeLists \cup {<< >>}

\* a failed assertion ends the program
Alive == op.name # "abort"

in_free_list(r, i) == \E k \in 1..Len(r.free_list) : r.free_list[k] = i

\* The handles the caller of Spec passes: any handle, except one that names a
\* slot on the free list with the slot's stored generation.  create_entity has
\* not handed out such a handle since the slot was freed; SpecLife covers the
\* stale handles that come to name a freed slot again.
Callers == {h \in Handles : ~(is_alive(ecs, h) /\ in_free_list(ecs, h.index))}

Create ==
  /\ Alive
  /\ ecs.free_list # << >> \/ Len(ecs.versions) < MaxEntities
  /\ LET c == create_entity(ecs)
     IN /\ ecs' = c.r
        /\ op' = [name |-> "create_entity", e |-> c.ret,
                  recycled |-> (ecs.free_list # << >>)]
        /\ held' = held \cup {c.ret}
  /\ UNCHANGED <<freed, written>>
  /\ UNCHANGED sparse_vars

Destroy(e) ==
  /\ Alive
  /\ is_alive(ecs, e) => Len(ecs.free_list) < MaxFree
  /\ ecs' = destroy_entity(ecs, e)
  /\ op' = IF is_alive(ecs, e)
            THEN [name |-> "destroy_entity", alive |-> TRUE, e |-> e,
                  had |-> {T \in Types : has(ecs, T, e)}]
            ELSE [name |-> "destroy_entity", alive |-> FALSE, index |-> e.index]
  /\ held' = held \ {e}
  /\ freed' = IF is_alive(ecs, e) THEN [freed EXCEPT ![e.index] = {e}] ELSE freed
  /\ written' = IF is_alive(ecs, e)
                THEN [T \in AllTypes |-> [written[T] EXCEPT ![e.index] = {}]]
                ELSE written
  /\ UNCHANGED sparse_vars

CreateEntity == Create /\ UNCHANGED <<issued, churn, kept>>

DestroyEntity(e) == Destroy(e) /\ UNCHANGED <<issued, churn, kept>>

Add(T, e, v) ==
  /\ Alive
  /\ IF is_alive(ecs, e)
     THEN /\ ecs' = add(ecs, T, e, v)
          /\ op' = [name |-> "add", T |-> T, e |-> e]
          /\ written' = [written EXCEPT ![T][e.index] = {v}]
     ELSE /\ ecs' = ecs
          /\ op' = [name |-> "abort", in |-> "add", index |-> e.index]
          /\ UNCHANGED written
  /\ UNCHANGED <<held, freed, issued>>
  /\ UNCHANGED sparse_vars

Remove(T, e) ==
  /\ Alive
  /\ ecs' = remove(ecs, T, e)
  /\ op' = IF is_alive(ecs, e)
            THEN [name |-> "remove", alive |-> TRUE, T |-> T, e |-> e]
            ELSE [name |-> "remove", alive |-> FALSE, index |-> e.index]
  /\ written' = IF is_alive(ecs, e) THEN [written EXCEPT ![T][e.index] = {}] ELSE written
  /\ UNCHANGED <<held, freed, issued>>
  /\ UNCHANGED sparse_vars

GetComponent(T, e) ==
  /\ Alive
  /\ LET g == get(ecs, T, e)
     IN /\ ecs' = g.r
        /\ op' = IF g.ok THEN [name |-> "get", ret |-> g.ret]
                         ELSE [name |-> "abort", in |-> "get"]
  /\ UNCHANGED <<held, freed, issued, written>>
  /\ UNCHANGED sparse_vars

AddComponent(T, e, v) == Add(T, e, v) /\ UNCHANGED <<churn, kept>>

RemoveComponent(T, e) == Remove(T, e) /\ UNCHANGED <<churn, kept>>

ReadComponent(T, e) == GetComponent(T, e) /\ UNCHANGED <<churn, kept>>

Has(T, e) ==
  /\ Alive
  /\ has(ecs, T, e) \in BOOLEAN
  /\ UNCHANGED vars

IsAlive(e) ==
  /\ Alive
  /\ is_alive(ecs, e) \in BOOLEAN
  /\ UNCHANGED vars

View(Ts) ==
  /\ Alive
  /\ LET w == view(ecs, Ts)
     IN /\ ecs' = w.r
        /\ op' = IF w.ok THEN [name |-> "view", Ts |-> Ts, calls |-> w.calls]
                         ELSE [name |-> "abort", in |-> "view"]
  /\ UNCHANGED <<held, freed, issued, written, churn, kept>>
  /\ UNCHANGED sparse_vars

CreateGroup(Ts) ==
  /\ Alive
  /\ LET c == create_group(ecs, Ts)
     IN /\ ecs' = c.r
        /\ op' = [name |-> "create_group", g |-> c.ret]
  /\ UNCHANGED <<held, freed, issued, written, churn>>
  /\ UNCHANGED sparse_vars

MakeGroup(Ts) == CreateGroup(Ts) /\ UNCHANGED kept

\* matches_group(e, g) on the Group the last create_group returned
MatchesGroup(e) ==
  /\ Alive
  /\ op.name = "create_group"
  /\ matches_group(ecs, e, op.g) \in BOOLEAN
  /\ UNCHANGED vars

Next ==
  \/ CreateEntity
  \/ \E e \in Callers : DestroyEntity(e)
  \/ \E T \in Types, e \in Callers, v \in Values : AddComponent(T, e, v)
  \/ \E T \in Types, e \in Callers : RemoveComponent(T, e)
  \/ \E T \in Types, e \in Callers : ReadComponent(T, e)
  \/ \E T \in Types, e \in Callers : Has(T, e)
  \/ \E e \in Callers : IsAlive(e)
  \/ \E Ts \in TypeLists : View(Ts)
  \/ \E Ts \in GroupLists : MakeGroup(Ts)
  \/ \E e \in Callers : MatchesGroup(e)

Spec == Init /\ [][Next]_vars

-----------------------------------------------------------------------------
(* Properties of the registry, checked under Spec *)

slots(r) == 0..(Len(r.versions) - 1)

\* the one handle is_alive accepts for slot i
current(r, i) == Entity(i, r.versions[i + 1])

\* the value get<T>(x) reads, when has<T>(x)
value_of(r, T, x) == set_get(get_storage(r, T).set, x.index)

\* C1: for every allocated entity index i and every registered type T, bit id(T)
\* of i's mask is set if and only if T's storage exists and contains key i.
C1_MaskMatchesStorage ==
  \A i \in slots(ecs) : \A T \in DOMAIN ecs.type_to_id :
    test_bit(mask_ptr(ecs, i), ecs.type_to_id[T])
      <=> (has_storage(ecs, T) /\ contains(get_storage(ecs, T).set, i))

\* after a remove, one entity carries a type the other entity has lost
C1_Witness ==
  /\ op.name = "remove" /\ op.alive
  /\ \E i, j \in slots(ecs) : \E T \in DOMAIN ecs.component_storages :
        /\ i # j
        /\ test_bit(mask_ptr(ecs, i), ecs.type_to_id[T])
        /\ ~test_bit(mask_ptr(ecs, j), ecs.type_to_id[T])
        /\ \E U \in DOMAIN ecs.component_storages :
              test_bit(mask_ptr(ecs, j), ecs.type_to_id[U])

\* how often the visitor was called with handle h
visits(calls, h) == Cardinality({k \in 1..Len(calls) : calls[k].e = h})

\* C2: view<T1..Tn> with a visitor that changes nothing calls the visitor exactly
\* once for each live entity that has every Ti, and for no other entity,
\* whatever the order in which the components were attached.
C2_ViewVisitsExactly ==
  (op.name = "view") =>
     /\ \A h \in Handles :
          visits(op.calls, h) =
            (IF is_alive(ecs, h) /\ \A k \in 1..Len(op.Ts) : has(ecs, op.Ts[k], h)
             THEN 1 ELSE 0)
     /\ \A k \in 1..Len(op.calls) : op.calls[k].e \in Handles

\* a view over two different types visited one entity and left out another
\* entity that has only one of the two types, and the two storages hold their
\* common key at different dense positions
C2_Witness ==
  /\ op.name = "view" /\ Len(op.Ts) = 2 /\ op.Ts[1] # op.Ts[2]
  /\ Len(op.calls) = 1
  /\ \E i \in slots(ecs) :
        /\ current(ecs, i) # op.calls[1].e
        /\ has(ecs, op.Ts[1], current(ecs, i)) # has(ecs, op.Ts[2], current(ecs, i))

\* The create_entity that recycles the slot freed by the destroy of h returns a
\* handle whose version differs from h's, h is not alive and the new handle is.
FirstRecycleDiffers ==
  (op.name = "create_entity") =>
     \A h \in freed[op.e.index] :
        /\ op.e.version # h.version
        /\ ~is_alive(ecs, h)
        /\ is_alive(ecs, op.e)

\* has and value of every pair (U, x) other than (T, e) are the same in r2 as in r1
others_unchanged(r1, r2, T, e) ==
  \A U \in Types, x \in Handles :
     (U # T \/ x.index # e.index) =>
        /\ has(r2, U, x) = has(r1, U, x)
        /\ has(r1, U, x) => (value_of(r2, U, x) = value_of(r1, U, x))

\* C6: for a live entity e, has<T>(e) is true right after add<T>(e, v) and false
\* right after remove<T>(e), and neither call changes has<U>(x) or the value of
\* get<U>(x) for any other pair (U, x).
C6_AddRemoveFrame ==
  [][ /\ (op'.name = "add") =>
           /\ has(ecs', op'.T, op'.e)
           /\ others_unchanged(ecs, ecs', op'.T, op'.e)
      /\ (op'.name = "remove" /\ op'.alive) =>
           /\ ~has(ecs', op'.T, op'.e)
           /\ others_unchanged(ecs, ecs', op'.T, op'.e)
    ]_vars

\* a component was removed from an entity that keeps its other component, while
\* another entity carries both types
C6_Witness ==
  /\ op.name = "remove" /\ op.alive
  /\ \E i, j \in slots(ecs) :
        /\ i # j
        /\ Cardinality({T \in Types : has(ecs, T, current(ecs, i))}) = 1
        /\ \A T \in Types : has(ecs, T, current(ecs, j))
        /\ \E T \in Types : has_storage(ecs, T) /\ size(get_storage(ecs, T).set) = 1
                              /\ get_storage(ecs, T).set.pages # << >>

\* C7: after destroy_entity(e) on a live e with index i, no storage contains key
\* i, every word of i's mask is zero, the stored generation of slot i is e's
\* version incremented (in the counter's own arithmetic), i is on the free list,
\* and every other live entity keeps all its components and values.
C7_DestroyIsTotal ==
  [][ (op'.name = "destroy_entity" /\ op'.alive) =>
        LET e == op'.e
        IN /\ \A T \in DOMAIN ecs'.component_storages :
                 ~contains(get_storage(ecs', T).set, e.index)
           /\ \A b \in 1..ecs'.mask_blocks : mask_ptr(ecs', e.index)[b] = ZeroWord
           /\ ecs'.versions[e.index + 1] = (e.version + 1) % VERSION_MOD
           /\ in_free_list(ecs', e.index)
           /\ \A x \in Handles :
                 (x.index # e.index /\ is_alive(ecs, x)) =>
                    /\ is_alive(ecs', x)
                    /\ \A T \in Types :
                          /\ has(ecs', T, x) = has(ecs, T, x)
                          /\ has(ecs, T, x) => (value_of(ecs', T, x) = value_of(ecs, T, x))
    ]_vars

\* an entity that carried both types was destroyed while another entity
\* carries both types
C7_Witness ==
  /\ op.name = "destroy_entity" /\ op.alive /\ op.had = Types
  /\ \E i \in slots(ecs) : \A T \in Types : has(ecs, T, current(ecs, i))

-----------------------------------------------------------------------------
(* SpecLife: the entity life cycle over many create / destroy rounds, with   *)
(* one component type and one value.  The caller passes every handle that    *)
(* create_entity has ever returned, current or stale, and any handle value   *)
(* is_alive rejects.                                                         *)

CreateTracked ==
  /\ Create
  /\ issued' = issued \cup {create_entity(ecs).ret}
  /\ UNCHANGED <<churn, kept>>

DestroyTracked(e) == Destroy(e) /\ UNCHANGED <<issued, churn, kept>>

Passed == {h \in Handles : h \in issued \/ ~is_alive(ecs, h)}

NextLife ==
  \/ CreateTracked
  \/ \E e \in Passed : DestroyTracked(e)
  \/ \E e \in Passed : AddComponent("A", e, 1)
  \/ \E e \in Passed : RemoveComponent("A", e)
  \/ \E e \in Passed : ReadComponent("A", e)
  \/ \E e \in Passed : Has("A", e)
  \/ \E e \in Passed : IsAlive(e)
  \/ View(<<"A">>)
  \/ MakeGroup(<<"A">>)
  \/ \E e \in Passed : MatchesGroup(e)

SpecLife == Init /\ [][NextLife]_vars

-----------------------------------------------------------------------------
(* Properties of the entity life cycle, checked under SpecLife *)

\* C5: when a handle h that create_entity returned has been destroyed and a later
\* create_entity returns a handle with h's index, the new handle's version
\* differs from h's, is_alive(h) is false and is_alive of the new handle is true.
C5_RecycledHandleDiffers ==
  [][ (op'.name = "create_entity" /\ ecs' # ecs) =>
        \A h \in issued \ held :
           (h.index = op'.e.index) =>
              /\ op'.e.version # h.version
              /\ ~is_alive(ecs', h)
              /\ is_alive(ecs', op'.e)
    ]_vars

\* C8: once a handle returned by create_entity has been destroyed, is_alive of it
\* is false in every later state, for any number of create / destroy cycles.
C8_StaleForever == \A h \in issued \ held : ~is_alive(ecs, h)

\* C9: a slot moves only Free -> Alive(g) by create_entity and Alive(g) -> Free
\* with stored generation g+1 by destroy_entity of its live handle; no other call
\* changes a slot's stored generation or its free / alive status.
C9_SlotTransitions ==
  [][ \A i \in 0..(MaxEntities - 1) :
        IF i \notin slots(ecs)
        THEN (i \in slots(ecs')) =>
                /\ op'.name = "create_entity" /\ op'.e = Entity(i, 1)
                /\ ~in_free_list(ecs', i)
        ELSE LET g == ecs.versions[i + 1]
                 g2 == ecs'.versions[i + 1]
             IN (g2 # g \/ in_free_list(ecs', i) # in_free_list(ecs, i)) =>
                   \/ /\ in_free_list(ecs, i) /\ ~in_free_list(ecs', i)
                      /\ g2 = g
                      /\ op'.name = "create_entity" /\ op'.e = Entity(i, g)
                   \/ /\ ~in_free_list(ecs, i) /\ in_free_list(ecs', i)
                      /\ g2 = (g + 1) % VERSION_MOD
                      /\ op'.name = "destroy_entity" /\ op'.alive
    ]_vars

\* entity index i has no mask bit set and is a key of no storage
bare(r, i) ==
  /\ \A w \in 1..Len(mask_ptr(r, i)) : mask_ptr(r, i)[w] = ZeroWord
  /\ \A T \in DOMAIN r.component_storages : ~contains(get_storage(r, T).set, i)

\* C23: every handle create_entity returns, for a new slot or a recycled one,
\* denotes an entity without components: its mask is all zero, has<T> is false
\* for every T and no storage contains its index, whatever the slot's previous
\* occupant carried when it was destroyed.
C23_CreatedEntityIsBare ==
  [][ (op'.name = "create_entity") =>
        /\ bare(ecs', op'.e.index)
        /\ \A T \in Types : ~has(ecs', T, op'.e)
    ]_vars

-----------------------------------------------------------------------------
(* Calls with a handle that is not live, checked under SpecLife *)

\* the handles create_entity has returned that is_alive rejects now
stale == {h \in issued : ~is_alive(ecs, h)}

\* slot i is allocated, off the free list, and its occupant carries T
occupied_with(r, T, i) ==
  /\ i \in slots(r) /\ ~in_free_list(r, i)
  /\ has(r, T, current(r, i))

\* C11: destroy_entity(h) with h not live (never issued, already destroyed, or
\* stale with its slot recycled) leaves the whole registry unchanged: no
\* generation, not the free list, not the components of the slot's occupant.
C11_DeadDestroyIsNoOp ==
  [][ (op'.name = "destroy_entity" /\ ~op'.alive) => ecs' = ecs ]_vars

\* destroy_entity was called with the stale handle of a recycled slot whose new
\* occupant carries a component
C11_Witness ==
  /\ op.name = "destroy_entity" /\ ~op.alive
  /\ \E h \in stale : h.index = op.index
  /\ occupied_with(ecs, "A", op.index)

\* C12: remove<T>(h) leaves the whole registry unchanged when h is not live, when
\* T has no storage, and when the live h does not carry T.
C12_DeadRemoveIsNoOp ==
  [][ (op'.name = "remove") =>
        IF op'.alive
        THEN ~has(ecs, op'.T, op'.e) => ecs' = ecs
        ELSE ecs' = ecs
    ]_vars

\* remove was called with the stale handle of a recycled slot whose new occupant
\* carries the type
C12_Witness ==
  /\ op.name = "remove" /\ ~op.alive
  /\ \E h \in stale : h.index = op.index
  /\ occupied_with(ecs, "A", op.index)

\* C13: has<T>(h) is false when h is not live or T was never registered;
\* otherwise it is exactly whether T's storage contains h.index, which is
\* whether a value was added for the slot's entity and not removed since.
C13_HasIsMembership ==
  \A h \in Handles, T \in Types :
     /\ (~is_alive(ecs, h) \/ T \notin DOMAIN ecs.type_to_id) => ~has(ecs, T, h)
     /\ (is_alive(ecs, h) /\ T \in DOMAIN ecs.type_to_id) =>
           /\ has(ecs, T, h) <=>
                 (has_storage(ecs, T) /\ contains(get_storage(ecs, T).set, h.index))
           /\ has(ecs, T, h) <=> (written[T][h.index] # {})

\* has refuses a stale handle although the occupant of its recycled slot carries
\* the type, and accepts the occupant's own handle
C13_Witness ==
  \E h \in stale :
     /\ occupied_with(ecs, "A", h.index)
     /\ ~has(ecs, "A", h)
     /\ has(ecs, "A", current(ecs, h.index))

\* C14: add<T>(h, v) with h not live fails its assertion before any change: the
\* registry is as before (no id, no storage, no value, no mask bit), and add
\* completes only for a handle whose index is allocated and whose version is the
\* slot's stored generation.
C14_DeadAddFailsFast ==
  [][ /\ (op'.name = "abort" /\ op'.in = "add") =>
           (ecs' = ecs /\ written' = written)
      /\ (op'.name = "add") =>
           /\ op'.e.index < Len(ecs.versions)
           /\ ecs.versions[op'.e.index + 1] = op'.e.version
    ]_vars

\* add was called with the stale handle of a recycled slot whose occupant does
\* not carry the type, before the type was ever registered
C14_Witness ==
  /\ op.name = "abort" /\ op.in = "add"
  /\ \E h \in stale : h.index = op.index
  /\ op.index \in slots(ecs) /\ ~in_free_list(ecs, op.index)
  /\ ecs.component_count = 0

-----------------------------------------------------------------------------
(* Reading components and groups, checked under Spec *)

\* C15: get<T>(e) ends in the assertion failure when e is not live and when e is
\* live without T (whether or not T has a storage or an id); it returns only
\* when has<T>(e), and then the value of the last add<T>(e, _).
C15_GetFailsFastOrReturnsLast ==
  /\ \A h \in Handles, T \in Types :
        LET g == get(ecs, T, h)
        IN /\ g.ok <=> has(ecs, T, h)
           /\ g.ok => (written[T][h.index] = {g.ret})
  /\ (op.name = "get") =>
        \E h \in Handles, T \in Types : has(ecs, T, h) /\ written[T][h.index] = {op.ret}

\* get has returned the second value while another entity holds the first value
\* of the same type at an earlier dense position
C15_Witness ==
  /\ op.name = "get" /\ op.ret = 2
  /\ \E T \in Types : \E i, j \in slots(ecs) :
        /\ written[T][i] = {2} /\ written[T][j] = {1}
        /\ has_storage(ecs, T)
        /\ entities(get_storage(ecs, T).set) = <<j, i>>

\* C16: for every handle e and type list Ts, matches_group(e, create_group<Ts>())
\* is true exactly when e is live and has<T>(e) for every T of Ts, that is when
\* e's mask is a superset of the group's required mask.
C16_GroupMatchesHas ==
  \A Ts \in GroupLists : \A h \in Handles :
     LET c == create_group(ecs, Ts)
         m == matches_group(c.r, h, c.ret)
     IN /\ m <=> (is_alive(c.r, h) /\ \A k \in 1..Len(Ts) : has(c.r, Ts[k], h))
        /\ is_alive(c.r, h) =>
              (m <=> \A b \in 1..Len(c.ret) :
                        c.ret[b] \subseteq mask_ptr(c.r, h.index)[b])

\* create_group has returned a group of two types; one live entity matches it,
\* another carries only one of the two types, and a destroyed handle whose
\* recycled slot's occupant matches does not
C16_Witness ==
  /\ op.name = "create_group" /\ Len(op.g) = 1 /\ Cardinality(op.g[1]) = 2
  /\ \E i, j \in slots(ecs) :
        /\ matches_group(ecs, current(ecs, i), op.g)
        /\ ~matches_group(ecs, current(ecs, j), op.g)
        /\ \E T \in Types : has(ecs, T, current(ecs, j))
        /\ \E h \in freed[i] : ~matches_group(ecs, h, op.g)

\* the ids assigned so far
ids(r) == {r.type_to_id[T] : T \in DOMAIN r.type_to_id}

\* C17: type ids are assigned in first-use order 0, 1, 2, ...: the assigned ids
\* are exactly 0..component_count-1, distinct types have distinct ids, a type
\* keeps its id in every step, and a type registered by a step gets an id that
\* was never assigned, also when no entity carries any type any more.
C17_TypeIdsDense ==
  [][ /\ ids(ecs') = 0..(ecs'.component_count - 1)
      /\ \A T, U \in DOMAIN ecs'.type_to_id :
            (T # U) => (ecs'.type_to_id[T] # ecs'.type_to_id[U])
      /\ \A T \in DOMAIN ecs.type_to_id :
            T \in DOMAIN ecs'.type_to_id /\ ecs'.type_to_id[T] = ecs.type_to_id[T]
      /\ \A T \in (DOMAIN ecs'.type_to_id) \ (DOMAIN ecs.type_to_id) :
            ecs'.type_to_id[T] >= ecs.component_count
    ]_vars

\* the second type is registered by an add after every entity that carried the
\* first type was destroyed: the first type keeps id 0 with an empty storage
C17_Witness ==
  /\ op.name = "add" /\ ecs.type_to_id[op.T] = 1
  /\ \E U \in DOMAIN ecs.component_storages :
        /\ ecs.type_to_id[U] = 0
        /\ size(get_storage(ecs, U).set) = 0
        /\ get_storage(ecs, U).set.pages # << >>
  /\ ecs.free_list # << >>

\* C18: view<T1..Tn> calls the visitor zero times whenever some Ti has no
\* storage, at whatever position of the type list the missing type stands.
C18_ViewNeedsEveryStorage ==
  /\ \A Ts \in TypeLists :
        (\E k \in 1..Len(Ts) : ~has_storage(ecs, Ts[k])) =>
           LET w == view(ecs, Ts)
           IN w.ok /\ w.calls = << >> /\ w.r = ecs
  /\ (op.name = "view" /\ \E k \in 1..Len(op.Ts) : ~has_storage(ecs, op.Ts[k])) =>
        op.calls = << >>

\* a view over two types has returned without a call: the first type has a
\* storage with an entity in it, the second type has no storage
C18_Witness ==
  /\ op.name = "view" /\ Len(op.Ts) = 2 /\ op.calls = << >>
  /\ has_storage(ecs, op.Ts[1]) /\ size(get_storage(ecs, op.Ts[1]).set) > 0
  /\ ~has_storage(ecs, op.Ts[2])

-----------------------------------------------------------------------------
(* Repeated add / get / remove on one entity, checked under SpecChurn.       *)
(* The caller creates and destroys entities and adds, reads and removes      *)
(* components as under Spec; churn follows the calls.  A cycle is an add, a  *)
(* get and a remove of the same type on the same entity, one after the       *)
(* other; cycles that follow each other directly form a run.  Any other call *)
(* ends the run.                                                             *)

\* storage->set.size(), 0 while the type has no storage
storage_size(r, T) == IF has_storage(r, T) THEN size(get_storage(r, T).set) ELSE 0

in_run(T, e) == churn.phase # "idle" /\ churn.T = T /\ churn.e = e

ChurnCreate == Create /\ UNCHANGED <<issued, kept>> /\ churn' = Idle

ChurnDestroy(e) == Destroy(e) /\ UNCHANGED <<issued, kept>> /\ churn' = Idle

ChurnAdd(T, e, v) ==
  /\ Add(T, e, v)
  /\ UNCHANGED kept
  /\ churn' = IF ~is_alive(ecs, e) THEN Idle
              ELSE IF in_run(T, e) /\ churn.phase = "removed" /\ churn.n < MaxCycles
              THEN [churn EXCEPT !.phase = "added"]
              ELSE [phase |-> "added", T |-> T, e |-> e, n |-> 0,
                    size0 |-> storage_size(ecs, T), had0 |-> has(ecs, T, e)]

ChurnGet(T, e) ==
  /\ GetComponent(T, e)
  /\ UNCHANGED kept
  /\ churn' = IF get(ecs, T, e).ok /\ in_run(T, e) /\ churn.phase = "added"
              THEN [churn EXCEPT !.phase = "read"]
              ELSE Idle

ChurnRemove(T, e) ==
  /\ Remove(T, e)
  /\ UNCHANGED kept
  /\ churn' = IF in_run(T, e) /\ churn.phase = "read"
              THEN [churn EXCEPT !.phase = "removed", !.n = churn.n + 1]
              ELSE Idle

NextChurn ==
  \/ ChurnCreate
  \/ \E e \in Callers : ChurnDestroy(e)
  \/ \E T \in Types, e \in Callers, v \in Values : ChurnAdd(T, e, v)
  \/ \E T \in Types, e \in Callers : ChurnGet(T, e)
  \/ \E T \in Types, e \in Callers : ChurnRemove(T, e)

SpecChurn == Init /\ [][NextChurn]_vars

\* after the remove that ends a cycle: the entity's bit for the type is 0 and
\* has<T> is false
churn_cleared ==
  /\ ~test_bit(mask_ptr(ecs, churn.e.index), ecs.type_to_id[churn.T])
  /\ ~has(ecs, churn.T, churn.e)

\* C19 as stated: after N >= 1 cycles of add<T>(e, v); get<T>(e); remove<T>(e)
\* on a live e, e's bit for T is 0, has<T>(e) is false and T's storage has the
\* size it had before the first cycle.
C19_ChurnKeepsSize ==
  churn.phase = "removed" =>
    churn_cleared /\ storage_size(ecs, churn.T) = churn.size0

\* C19, amended: after N >= 1 cycles on a live e, e's bit for T is 0 and
\* has<T>(e) is false; T's storage has the size it had before the first cycle
\* when e did not carry T then, and one less when e carried T.
C19_ChurnKeepsSizeOfOthers ==
  churn.phase = "removed" =>
    /\ churn_cleared
    /\ storage_size(ecs, churn.T) = churn.size0 - (IF churn.had0 THEN 1 ELSE 0)

\* MaxCycles cycles are done on an entity that did not carry the type, whose
\* storage held another entity's component before the first cycle
C19_Witness ==
  /\ churn.phase = "removed" /\ churn.n = MaxCycles
  /\ ~churn.had0 /\ churn.size0 > 0

-----------------------------------------------------------------------------
(* What a view registers, visits and looks up, checked under Spec *)

registered(r, T) == T \in DOMAIN r.type_to_id

\* C24 as stated: after view<T1..Tn> every type of the list has a component id,
\* also when the view visited nothing because a storage is absent.
C24_ViewRegistersTypes ==
  [][ (op'.name = "view") =>
        \A k \in 1..Len(op'.Ts) : registered(ecs', op'.Ts[k])
    ]_vars

\* C24, amended: view<T1..Tn> assigns no component id.  When the storage of a
\* listed type is absent it returns with the registry as it was, an
\* unregistered type still unregistered; when every storage exists, every
\* listed type already has the id it got when its storage was created.
C24_ViewRegistersNothing ==
  [][ (op'.name = "view") =>
        /\ ecs'.type_to_id = ecs.type_to_id
        /\ ecs'.component_count = ecs.component_count
        /\ (\E k \in 1..Len(op'.Ts) : ~has_storage(ecs, op'.Ts[k])) => ecs' = ecs
        /\ (\A k \in 1..Len(op'.Ts) : has_storage(ecs, op'.Ts[k])) =>
              \A k \in 1..Len(op'.Ts) : registered(ecs, op'.Ts[k])
    ]_vars

\* a view over two types has returned: the first has a storage with an entity
\* in it, the second has neither a storage nor an id
C24_Witness ==
  /\ op.name = "view" /\ Len(op.Ts) = 2 /\ op.calls = << >>
  /\ has_storage(ecs, op.Ts[1]) /\ size(get_storage(ecs, op.Ts[1]).set) > 0
  /\ ~registered(ecs, op.Ts[2])
  /\ ecs.component_count = 1

\* the type of the list whose storage has the fewest elements, the one listed
\* first among equals
fewest(r, Ts) ==
  LET n(k) == size(get_storage(r, Ts[k]).set)
  IN Ts[CHOOSE k \in 1..Len(Ts) :
          /\ \A j \in 1..Len(Ts) : n(k) <= n(j)
          /\ \A j \in 1..(k - 1) : n(j) > n(k)]

\* the entity indexes of T's storage, in dense order, whose entity has every
\* type of Ts
matching_in_order(r, T, Ts) ==
  SelectSeq(entities(get_storage(r, T).set),
            LAMBDA i : \A k \in 1..Len(Ts) : has(r, Ts[k], current(r, i)))

indexes(calls) == [k \in 1..Len(calls) |-> calls[k].e.index]

\* C27: view<T1..Tn> iterates the storage with the fewest elements, the first
\* listed one on a tie, and calls the visitor on the matching entities in that
\* storage's dense key order.
C27_ViewFollowsSmallest ==
  /\ \A Ts \in TypeLists :
        (\A k \in 1..Len(Ts) : has_storage(ecs, Ts[k])) =>
           /\ pick_best(ecs, Ts[1], Ts) = fewest(ecs, Ts)
           /\ indexes(view(ecs, Ts).calls) = matching_in_order(ecs, fewest(ecs, Ts), Ts)
  /\ (op.name = "view" /\ \A k \in 1..Len(op.Ts) : has_storage(ecs, op.Ts[k])) =>
        indexes(op.calls) = matching_in_order(ecs, fewest(ecs, op.Ts), op.Ts)

\* a view over two types whose storages hold the same two entities in opposite
\* dense orders has visited both, in the order of the type listed first
C27_Witness ==
  /\ op.name = "view" /\ Len(op.Ts) = 2 /\ Len(op.calls) = 2
  /\ has_storage(ecs, op.Ts[1]) /\ has_storage(ecs, op.Ts[2])
  /\ entities(get_storage(ecs, op.Ts[1]).set) # entities(get_storage(ecs, op.Ts[2]).set)
  /\ indexes(op.calls) = entities(get_storage(ecs, op.Ts[1]).set)

\* C28: in a view whose visitor makes no structural change, every component
\* lookup made for an entity that passed the mask check succeeds, and the
\* handle the visitor gets is live and carries its slot's current generation.
C28_ViewLookupsSucceed ==
  /\ \A Ts \in TypeLists :
        LET w == view(ecs, Ts)
        IN /\ w.ok
           /\ \A k \in 1..Len(w.calls) :
                 LET e == w.calls[k].e
                 IN /\ is_alive(ecs, e)
                    /\ e.version = ecs.versions[e.index + 1]
                    /\ ~in_free_list(ecs, e.index)
                    /\ \A j \in 1..Len(Ts) :
                          /\ has(ecs, Ts[j], e)
                          /\ written[Ts[j]][e.index] = {w.calls[k].comps[j]}
  /\ ~(op.name = "abort" /\ op.in = "view")
  /\ (op.name = "view") => \A k \in 1..Len(op.calls) : op.calls[k].e \in held

\* a view over two types has visited an entity that lives in a recycled slot
\* and carries two different values, and not the other entity, which has
\* one of the two types only
C28_Witness ==
  /\ op.name = "view" /\ Len(op.Ts) = 2 /\ Len(op.calls) = 1
  /\ op.calls[1].e.version # 1
  /\ freed[op.calls[1].e.index] # {}
  /\ op.calls[1].comps[1] # op.calls[1].comps[2]
  /\ \E i \in slots(ecs) :
        /\ i # op.calls[1].e.index
        /\ \E j \in 1..2 : has(ecs, op.Ts[j], current(ecs, i))

-----------------------------------------------------------------------------
(* SpecMasks: three component types, so that registering the third one takes *)
(* the masks from one word to two.  The caller creates entities, adds, reads  *)
(* and removes components of the three types on the entities it holds, and   *)
(* keeps the Group of its last create_group call while further types are     *)
(* registered.                                                               *)

GroupLists3 ==
  {Ts \in UNION {[1..n -> AllTypes] : n \in 0..MaxTypeList} :
      \A j, k \in 1..Len(Ts) : j # k => Ts[j] # Ts[k]}

\* Group g = create_group<Ts...>(), and the caller keeps g
KeepGroup(Ts) ==
  /\ CreateGroup(Ts)
  /\ kept' = {[Ts |-> Ts, g |-> create_group(ecs, Ts).ret]}

\* matches_group(e, g) on the kept Group
MatchesKept(e) ==
  /\ Alive
  /\ \E k \in kept : matches_group(ecs, e, k.g) \in BOOLEAN
  /\ UNCHANGED vars

NextMasks ==
  \/ CreateEntity
  \/ \E T \in AllTypes, e \in held : AddComponent(T, e, 1)
  \/ \E T \in AllTypes, e \in held : RemoveComponent(T, e)
  \/ \E T \in AllTypes, e \in held : ReadComponent(T, e)
  \/ \E Ts \in GroupLists3 : KeepGroup(Ts)
  \/ \E e \in Callers : MatchesKept(e)

SpecMasks == Init /\ [][NextMasks]_vars

\* the bit positions that are set in the mask of entity index i
bits_of(r, i) ==
  {p \in 0..(r.mask_blocks * BLOCK_BITS - 1) : test_bit(mask_ptr(r, i), p)}

\* C29: a step that registers a new component type (through add, get or
\* create_group), also when the masks grow by a word, leaves every bit of
\* every entity that belongs to a type registered before as it was, and with
\* it has<T>(e) and matches_group for those types; the number of mask words
\* never decreases.
C29_RegisteringKeepsBits ==
  [][ /\ ecs'.mask_blocks >= ecs.mask_blocks
      /\ ecs'.mask_blocks = blocks_for_bits(ecs'.component_count)
      /\ (ecs'.component_count > ecs.component_count) =>
            /\ \A i \in slots(ecs) :
                  /\ Len(mask_ptr(ecs', i)) = ecs'.mask_blocks
                  /\ bits_of(ecs', i) \cap (0..(ecs.component_count - 1)) = bits_of(ecs, i)
                  /\ bits_of(ecs', i) \subseteq 0..(ecs'.component_count - 1)
            /\ \A T \in DOMAIN ecs.type_to_id :
                  /\ ecs'.type_to_id[T] = ecs.type_to_id[T]
                  /\ \A h \in Handles : has(ecs', T, h) <=> has(ecs, T, h)
            /\ \A k \in kept, h \in Handles :
                  matches_group(ecs', h, k.g) <=> matches_group(ecs, h, k.g)
    ]_vars

\* an add has given the type with the first id of the second word to one of
\* two entities; the entities carry different types of the first word
C29_Witness ==
  /\ op.name = "add" /\ ecs.type_to_id[op.T] = BLOCK_BITS
  /\ ecs.mask_blocks = 2
  /\ size(get_storage(ecs, op.T).set) = 1
  /\ \E i, j \in slots(ecs) :
        /\ i # j
        /\ bits_of(ecs, i) \cap (0..(BLOCK_BITS - 1)) # {}
        /\ bits_of(ecs, j) \cap (0..(BLOCK_BITS - 1)) # {}
        /\ bits_of(ecs, i) \cap (0..(BLOCK_BITS - 1)) # bits_of(ecs, j) \cap (0..(BLOCK_BITS - 1))

\* C30: a Group returned by create_group stays valid when further types are
\* registered: also when the entity masks have more words than the group's
\* mask, matches_group(e, g) is true exactly when e is live and carries every
\* type the group was built from.
C30_KeptGroupStaysValid ==
  \A k \in kept, h \in Handles :
     matches_group(ecs, h, k.g) <=>
        (is_alive(ecs, h) /\ \A j \in 1..Len(k.Ts) : has(ecs, k.Ts[j], h))

\* the kept group of two types has one word and the masks have two; one entity
\* carries the group's types and the type of the second word, the other entity
\* carries that type and one of the group's types
C30_Witness ==
  /\ \E k \in kept :
        /\ Len(k.Ts) = 2 /\ Len(k.g) = 1 /\ ecs.mask_blocks = 2
        /\ \E i, j \in slots(ecs) :
              /\ matches_group(ecs, current(ecs, i), k.g)
              /\ ~matches_group(ecs, current(ecs, j), k.g)
              /\ has(ecs, k.Ts[1], current(ecs, j))
              /\ BLOCK_BITS \in bits_of(ecs, i) /\ BLOCK_BITS \in bits_of(ecs, j)

-----------------------------------------------------------------------------
(* Slot allocation, checked under SpecLife *)

\* C31: create_entity returns a recycled slot whenever the free list is not
\* empty: the index destroyed most recently, with the destroyed handle's
\* version plus one (in the counter's own arithmetic); only with an empty free
\* list does it allocate a new slot, whose index is the number of slots
\* allocated so far and whose version is 1.  A destroy_entity that frees a
\* slot puts its index at the back of the free list.
C31_CreateRecyclesLifo ==
  [][ /\ (op'.name = "create_entity") =>
            IF ecs.free_list # << >>
            THEN /\ op'.e.index = ecs.free_list[Len(ecs.free_list)]
                 /\ \A h \in freed[op'.e.index] :
                       op'.e.version = (h.version + 1) % VERSION_MOD
                 /\ freed[op'.e.index] # {}
                 /\ ecs'.free_list = [k \in 1..(Len(ecs.free_list) - 1) |-> ecs.free_list[k]]
                 /\ ecs'.versions = ecs.versions
            ELSE /\ op'.e = Entity(Len(ecs.versions), 1)
                 /\ Len(ecs'.versions) = Len(ecs.versions) + 1
                 /\ ecs'.free_list = << >>
      /\ (op'.name = "destroy_entity" /\ op'.alive) =>
            /\ ecs'.free_list = ecs.free_list \o <<op'.e.index>>
            /\ freed'[op'.e.index] = {op'.e}
    ]_vars

\* create_entity has recycled the slot destroyed last while the slot
\* destroyed before it is still on the free list
C31_Witness ==
  /\ op.name = "create_entity" /\ op.recycled
  /\ Len(ecs.free_list) = 1 /\ ecs.free_list[1] # op.e.index
  /\ ecs.free_list[1] < op.e.index

\* slot i is live: allocated and holding an entity, whose handle the caller
\* got from create_entity and has not destroyed
live_slots == {h.index : h \in held}

free_count(r, i) == Cardinality({k \in 1..Len(r.free_list) : r.free_list[k] = i})

\* C32: when destroy_entity is only called with handles create_entity has
\* returned, the free list never holds an index twice nor the index of a live
\* entity, every allocated index is either live or on the free list exactly
\* once, and create_entity never returns a handle equal to, or sharing its
\* index with, a handle that is live.
C32_FreeListDisjoint ==
  [][ /\ \A i \in slots(ecs') :
            /\ free_count(ecs', i) <= 1
            /\ (i \in live_slots') => free_count(ecs', i) = 0
            /\ (i \notin live_slots') => free_count(ecs', i) = 1
      /\ \A k \in 1..Len(ecs'.free_list) : ecs'.free_list[k] \in slots(ecs')
      /\ (op'.name = "create_entity" /\ ecs' # ecs) =>
            \A h \in held : h.index # op'.e.index
    ]_vars


\* INVALID_ENTITY is {UINT32_MAX, UINT32_MAX}: both fields at the largest value
\* of their type.  At the width of the model the largest index is the last one
\* create_entity can hand out and the largest generation is VERSION_MOD - 1.
MAX_INDEX == MaxEntities - 1

MAX_VERSION == VERSION_MOD - 1

INVALID_ENTITY == Entity(MAX_INDEX, MAX_VERSION)

\* C33: the sentinel INVALID_ENTITY is never live and create_entity never
\* returns it; has on it is false and destroy_entity and remove on it change
\* nothing.
C33_SentinelNeverLive ==
  /\ ~is_alive(ecs, INVALID_ENTITY)
  /\ (op.name = "create_entity" => op.e # INVALID_ENTITY)
  /\ ~has(ecs, "A", INVALID_ENTITY)
  /\ destroy_entity(ecs, INVALID_ENTITY) = ecs
  /\ remove(ecs, "A", INVALID_ENTITY) = ecs


-----------------------------------------------------------------------------
(* The queries, checked under SpecQuery *)

find_storage_creating(r, T) ==
  [r |-> get_or_create_storage(r, T), found |-> TRUE]

\* get_storage<T>(): component_storages.find, nothing inserted; the registry
\* afterwards and whether the pointer returned is non-null
find_storage(r, T) == [r |-> r, found |-> has_storage(r, T)]

\* is_alive(e) as a call: a const member, the registry afterwards and the answer
is_alive_call(r, e) == [r |-> r, ret |-> is_alive(r, e)]

\* has<T>(e) as a call: the registry afterwards and the answer
has_call(r, T, e) ==
  IF ~is_alive(r, e) THEN [r |-> r, ret |-> FALSE]
  ELSE LET f == find_storage(r, T)
       IN IF ~f.found THEN [r |-> f.r, ret |-> FALSE]
          ELSE [r |-> f.r, ret |-> contains(get_storage(f.r, T).set, e.index)]

\* matches_group(e, g) as a call: a const member, the registry afterwards and
\* the answer
matches_group_call(r, e, g) == [r |-> r, ret |-> matches_group(r, e, g)]

QueryIsAlive(e) ==
  /\ Alive
  /\ LET c == is_alive_call(ecs, e)
     IN /\ ecs' = c.r
        /\ op' = [name |-> "is_alive", e |-> e, ret |-> c.ret]
  /\ UNCHANGED <<held, freed, issued, written, churn, kept>>
  /\ UNCHANGED sparse_vars

QueryHas(T, e) ==
  /\ Alive
  /\ LET c == has_call(ecs, T, e)
     IN /\ ecs' = c.r
        /\ op' = [name |-> "has", T |-> T, e |-> e, ret |-> c.ret]
  /\ UNCHANGED <<held, freed, issued, written, churn, kept>>
  /\ UNCHANGED sparse_vars

\* matches_group(e, g) on the kept Group
QueryMatchesGroup(e) ==
  /\ Alive
  /\ \E k \in kept :
       LET c == matches_group_call(ecs, e, k.g)
       IN /\ ecs' = c.r
          /\ op' = [name |-> "matches_group", e |-> e, ret |-> c.ret]
  /\ UNCHANGED <<held, freed, issued, written, churn, kept>>
  /\ UNCHANGED sparse_vars

NextQuery ==
  \/ CreateEntity
  \/ \E e \in held : DestroyEntity(e)
  \/ \E T \in Types, e \in held : AddComponent(T, e, 1)
  \/ \E Ts \in GroupLists : KeepGroup(Ts)
  \/ \E e \in Handles : QueryIsAlive(e)
  \/ \E T \in Types, e \in Handles : QueryHas(T, e)
  \/ \E e \in Handles : QueryMatchesGroup(e)

SpecQuery == Init /\ [][NextQuery]_vars

\* C34: a call of is_alive, has<T> or matches_group leaves the registry as it
\* was: no component id assigned, no storage created, no mask bit, generation or
\* free-list entry changed, also when T was never registered or the handle is
\* not live.
C34_QueriesChangeNothing ==
  [][ (op'.name \in {"is_alive", "has", "matches_group"}) => ecs' = ecs ]_vars

\* has<T>(e) was called on a live handle with T never registered, after another
\* type was registered
C34_Witness ==
  /\ op.name = "has"
  /\ op.T \notin DOMAIN ecs.type_to_id
  /\ is_alive(ecs, op.e)
  /\ ~op.ret
  /\ ecs.component_count = 1

====
